---- MODULE Spec2Model ----
(***************************************************************************)
(* Unscented Kalman filter of src/ukf.cpp (class UKF) as a state machine.  *)
(*                                                                         *)
(* The filter's doubles are modelled as fixed-point integers with SCALE    *)
(* units per 1.0, plus the value NaN, which every arithmetic operation     *)
(* propagates as IEEE arithmetic does.  Vectors and matrices are functions *)
(* indexed from 0 as in the source.  One call of ProcessMeasurement is a   *)
(* chain of steps, one per member function it runs; pc is the position of  *)
(* the (single) thread of control.                                         *)
(***************************************************************************)
EXTENDS Integers, Sequences, FiniteSets, TLC

\* ------------------------------------------------------------------ bounds

\* Number of ProcessMeasurement calls made by the caller in one run.
MaxCalls == 3

\* Largest magnitude (fixed-point radians) of an angle difference handed to
\* the normalisation loops in the specification SpecNormalize.
MaxAngle == 10000

\* ------------------------------------------------- fixed-point arithmetic

\* Units per 1.0 of a modelled double.
SCALE == 1000

\* The IEEE not-a-number, outside the range of every modelled value.
NaN == 999999999

IsNaN(a) == a = NaN

\* TLC builds [i \in S |-> e] lazily; the comparison materialises it once.
Eval(f) == IF f = f THEN f ELSE f

\* b, once a has been computed: TLC evaluates a definition where it is first
\* used, so a chain of definitions is computed in order to keep it shallow.
After(a, b) == IF a = a THEN b ELSE b

Abs(a) == IF a < 0 THEN -a ELSE a

Sgn(a) == IF a < 0 THEN -1 ELSE 1

\* p / q rounded to the nearest integer, halves away from zero (q # 0).
Round(p, q) == Sgn(p) * Sgn(q) * ((2 * Abs(p) + Abs(q)) \div (2 * Abs(q)))

FAdd(a, b) == IF IsNaN(a) \/ IsNaN(b) THEN NaN ELSE a + b

FSub(a, b) == IF IsNaN(a) \/ IsNaN(b) THEN NaN ELSE a - b

FMul(a, b) == IF IsNaN(a) \/ IsNaN(b) THEN NaN ELSE Round(a * b, SCALE)

\* double division: 0/0 is NaN; x/0 (an infinity in IEEE) is folded into NaN.
FDiv(a, b) == IF IsNaN(a) \/ IsNaN(b) \/ b = 0 THEN NaN ELSE Round(a * SCALE, b)

\* fabs
Fabs(a) == IF IsNaN(a) THEN NaN ELSE Abs(a)

\* a > b on doubles: false when either side is NaN.
FGt(a, b) == ~IsNaN(a) /\ ~IsNaN(b) /\ a > b

\* a < b on doubles: false when either side is NaN.
FLt(a, b) == ~IsNaN(a) /\ ~IsNaN(b) /\ a < b

RECURSIVE ISqrtFrom(_, _)
ISqrtFrom(n, r) ==
  LET nr == (r + n \div r) \div 2
  IN  IF nr >= r THEN r ELSE ISqrtFrom(n, nr)

\* Integer square root (Newton iteration from above).
ISqrt(n) == IF n <= 0 THEN 0 ELSE ISqrtFrom(n, n)

\* sqrt: NaN for a negative argument.
Sqrt(a) == IF IsNaN(a) \/ a < 0 THEN NaN ELSE ISqrt(a * SCALE)

M_PI == 3142

\* sin on [0, pi] (Bhaskara's rational approximation, exact at 0 and pi).
SinHalf(x) ==
  LET q == x * (M_PI - x)
  IN  Round(16 * SCALE * (q \div 100), (5 * M_PI * M_PI - 4 * q) \div 100)

Sin(a) ==
  IF IsNaN(a) THEN NaN
  ELSE LET r == a % (2 * M_PI)
       IN  IF r <= M_PI THEN SinHalf(r) ELSE -SinHalf(r - M_PI)

Cos(a) == IF IsNaN(a) THEN NaN ELSE Sin(a + M_PI \div 2)

\* atan on [-1, 1]: z * (pi/4 + 0.273 * (1 - |z|)).
AtanUnit(z) == FMul(z, M_PI \div 4 + FMul(273, SCALE - Abs(z)))

\* atan2(y, x), with atan2(0, 0) = 0 as in the C library.
Atan2(y, x) ==
  IF IsNaN(y) \/ IsNaN(x) THEN NaN
  ELSE IF x = 0 /\ y = 0 THEN 0
  ELSE IF Abs(y) <= Abs(x)
       THEN LET a == AtanUnit(FDiv(y, x))
            IN  IF x > 0 THEN a ELSE IF y >= 0 THEN a + M_PI ELSE a - M_PI
       ELSE LET a == AtanUnit(FDiv(x, y))
            IN  IF y > 0 THEN M_PI \div 2 - a ELSE -(M_PI \div 2) - a

\* --------------------------------------------------------- linear algebra

RECURSIVE SumRange(_, _, _)
\* f[lo] + ... + f[hi - 1], added pairwise: FAdd is associative and NaN absorbs
\* in any order, so the sum is that of the source's loop from 0 upwards.
SumRange(f, lo, hi) ==
  IF hi <= lo THEN 0
  ELSE IF hi = lo + 1 THEN f[lo]
  ELSE LET mid == (lo + hi) \div 2
       IN  FAdd(SumRange(f, lo, mid), SumRange(f, mid, hi))

\* f[0] + ... + f[n - 1]
SumTo(f, n) == SumRange(f, 0, n)

\* VectorXd(n) filled with c
VecFill(n, c) == [i \in 0 .. n - 1 |-> c]

\* MatrixXd(r, c) filled with v
MatFill(r, c, v) == [i \in 0 .. r - 1, j \in 0 .. c - 1 |-> v]

\* MatrixXd::Identity(n, n) * v
MatIdentity(n, v) == [i \in 0 .. n - 1, j \in 0 .. n - 1 |-> IF i = j THEN v ELSE 0]

\* A * B for an r x n matrix A and an n x c matrix B
MatMul(A, B, r, n, c) ==
  Eval([i \in 0 .. r - 1, j \in 0 .. c - 1 |->
          SumTo([k \in 0 .. n - 1 |-> FMul(A[i, k], B[k, j])], n)])

\* A * v for an r x n matrix A and an n-vector v
MatVec(A, v, r, n) ==
  Eval([i \in 0 .. r - 1 |-> SumTo([k \in 0 .. n - 1 |-> FMul(A[i, k], v[k])], n)])

\* A.transpose() of an r x c matrix
Transpose(A, r, c) == Eval([i \in 0 .. c - 1, j \in 0 .. r - 1 |-> A[j, i]])

MatAdd(A, B, r, c) == Eval([i \in 0 .. r - 1, j \in 0 .. c - 1 |-> FAdd(A[i, j], B[i, j])])

MatSub(A, B, r, c) == Eval([i \in 0 .. r - 1, j \in 0 .. c - 1 |-> FSub(A[i, j], B[i, j])])

VecAdd(u, v, n) == Eval([i \in 0 .. n - 1 |-> FAdd(u[i], v[i])])

VecSub(u, v, n) == Eval([i \in 0 .. n - 1 |-> FSub(u[i], v[i])])

\* w * u * v.transpose() for an n-vector u and an m-vector v
Outer(w, u, v, n, m) ==
  Eval([i \in 0 .. n - 1, j \in 0 .. m - 1 |-> FMul(w, FMul(u[i], v[j]))])

\* column c of a matrix with r rows
Col(A, c, r) == Eval([i \in 0 .. r - 1 |-> A[i, c]])

\* Eigen's LLT (unblocked, in place) from column k on: a non-positive pivot
\* stops the factorisation and leaves the remaining columns as they were.
RECURSIVE LltFrom(_, _, _)
LltFrom(L, k, n) ==
  IF k = n THEN L
  ELSE LET x == FSub(L[k, k], SumTo([m \in 0 .. k - 1 |-> FMul(L[k, m], L[k, m])], k))
       IN  IF ~IsNaN(x) /\ x <= 0 THEN L
           ELSE LET s == Sqrt(x)
                    Lk == Eval([i \in 0 .. n - 1, j \in 0 .. n - 1 |->
                            IF j # k \/ i < k THEN L[i, j]
                            ELSE IF i = k THEN s
                            ELSE FDiv(FSub(L[i, k],
                                           SumTo([m \in 0 .. k - 1 |->
                                                    FMul(L[i, m], L[k, m])], k)), s)])
                IN  After(Lk, LltFrom(Lk, k + 1, n))

\* A.llt().matrixL(): the lower-triangular Cholesky factor of an n x n matrix
Llt(A, n) ==
  LltFrom(Eval([i \in 0 .. n - 1, j \in 0 .. n - 1 |-> IF j <= i THEN A[i, j] ELSE 0]), 0, n)

\* Gauss-Jordan elimination with partial pivoting on the n x 2n matrix [A | I],
\* from column c on; a NaN entry or a zero pivot poisons the result.
RECURSIVE GaussJordan(_, _, _)
GaussJordan(M, c, n) ==
  IF c = n THEN M
  ELSE LET p == CHOOSE r \in c .. n - 1 :
                  \A q \in c .. n - 1 : Abs(M[r, c]) >= Abs(M[q, c])
           piv == M[p, c]
       IN  IF piv = 0 \/ \E i \in 0 .. n - 1, j \in 0 .. 2 * n - 1 : IsNaN(M[i, j])
           THEN MatFill(n, 2 * n, NaN)
           ELSE LET Sw == [i \in 0 .. n - 1, j \in 0 .. 2 * n - 1 |->
                            IF i = c THEN FDiv(M[p, j], piv)
                            ELSE IF i = p THEN M[c, j] ELSE M[i, j]]
                    SwE == Eval(Sw)
                    El == [i \in 0 .. n - 1, j \in 0 .. 2 * n - 1 |->
                            IF i = c THEN SwE[i, j]
                            ELSE FSub(SwE[i, j], FMul(SwE[i, c], SwE[c, j]))]
                    ElE == Eval(El)
                IN  After(ElE, GaussJordan(ElE, c + 1, n))

\* A.inverse() of an n x n matrix
Inverse(A, n) ==
  LET M == Eval([i \in 0 .. n - 1, j \in 0 .. 2 * n - 1 |->
                   IF j < n THEN A[i, j] ELSE IF j - n = i THEN SCALE ELSE 0])
      R == GaussJordan(M, 0, n)
  IN  Eval([i \in 0 .. n - 1, j \in 0 .. n - 1 |-> R[i, j + n]])

\* ------------------------------------------------------ filter constants

\* MeasurementPackage::SensorType
LASER == 0

RADAR == 1

n_x_ == 5

n_aug_ == 7

n_z_ == 3

\* number of sigma points, 2 * n_aug_ + 1
NSigma == 2 * n_aug_ + 1

std_a_ == 3000

std_yawdd_ == 1000

std_laspx_ == 150

std_laspy_ == 150

std_radr_ == 300

std_radphi_ == 30

std_radrd_ == 300

\* lambda_ = 3.0 - n_x_
lambda_ == 3 - n_x_

weight_0 == FDiv(lambda_ * SCALE, (lambda_ + n_aug_) * SCALE)

weight == FDiv(SCALE \div 2, (lambda_ + n_aug_) * SCALE)

weights_ == [i \in 0 .. NSigma - 1 |-> IF i = 0 THEN weight_0 ELSE weight]

\* laser measurement matrix
H_ ==
  [i \in 0 .. 1, j \in 0 .. n_x_ - 1 |-> IF i = j THEN SCALE ELSE 0]

\* laser measurement covariance matrix
RL_ ==
  [i \in 0 .. 1, j \in 0 .. 1 |->
     IF i # j THEN 0
     ELSE IF i = 0 THEN FMul(std_laspx_, std_laspx_) ELSE FMul(std_laspy_, std_laspy_)]

\* radar measurement covariance matrix
RR_ ==
  [i \in 0 .. n_z_ - 1, j \in 0 .. n_z_ - 1 |->
     IF i # j THEN 0
     ELSE IF i = 0 THEN FMul(std_radr_, std_radr_)
     ELSE IF i = 1 THEN FMul(std_radphi_, std_radphi_)
     ELSE FMul(std_radrd_, std_radrd_)]

\* ---------------------------------------------------------- the algorithms

\* NormalizeDown with an if in place of the while
NormalizeDownOnce(a) == IF FGt(a, M_PI) THEN FSub(a, 2 * M_PI) ELSE a

\* angle normalization: while (a > M_PI) a -= 2. * M_PI;
NormalizeDown(a) ==
  LET RECURSIVE Loop(_)
      Loop(d) == IF FGt(d, M_PI) THEN Loop(FSub(d, 2 * M_PI)) ELSE d
  IN  Loop(a)

\* angle normalization: while (a < -M_PI) a += 2. * M_PI;
NormalizeUp(a) ==
  LET RECURSIVE Loop(_)
      Loop(d) == IF FLt(d, -M_PI) THEN Loop(FAdd(d, 2 * M_PI)) ELSE d
  IN  Loop(a)

\* the two loops in sequence, as at every site of the source
NormalizeAngle(a) == NormalizeUp(NormalizeDown(a))

\* a difference vector with component k angle-normalized
NormalizeAt(d, k, n) ==
  Eval([i \in 0 .. n - 1 |-> IF i = k THEN NormalizeAngle(d[i]) ELSE d[i]])

\* term[0] + ... + term[n - 1], an r x c matrix each
MatSumTo(term, n, r, c) ==
  After(term, Eval([i \in 0 .. r - 1, j \in 0 .. c - 1 |->
                      SumTo([s \in 0 .. n - 1 |-> term[s][i, j]], n)]))

\* x_aug: the mean with the two noise terms, at mean 0, appended
AugmentedMean(x) == [i \in 0 .. n_aug_ - 1 |-> IF i < n_x_ THEN x[i] ELSE 0]

\* P_aug: P in the top left corner, the process noise on the diagonal
AugmentedCovariance(P) ==
  [i \in 0 .. n_aug_ - 1, j \in 0 .. n_aug_ - 1 |->
     IF i < n_x_ /\ j < n_x_ THEN P[i, j]
     ELSE IF i = 5 /\ j = 5 THEN FMul(std_a_, std_a_)
     ELSE IF i = 6 /\ j = 6 THEN FMul(std_yawdd_, std_yawdd_)
     ELSE 0]

\* Xsig_aug_ as AugmentedSigmaPoints() sets it from x_ and P_
AugmentedSigmaPointsOf(x, P) ==
  LET x_aug == AugmentedMean(x)
      L == Llt(AugmentedCovariance(P), n_aug_)
      c == Sqrt((lambda_ + n_aug_) * SCALE)
  IN  After(L,
        Eval([r \in 0 .. n_aug_ - 1, i \in 0 .. NSigma - 1 |->
                IF i = 0 THEN x_aug[r]
                ELSE IF i <= n_aug_ THEN FAdd(x_aug[r], FMul(c, L[r, i - 1]))
                ELSE FSub(x_aug[r], FMul(c, L[r, i - 1 - n_aug_]))]))

\* column i of Xsig_pred_ as SigmaPointPrediction(delta_t) computes it
PredictPoint(Xsig_aug, i, dt) ==
  LET p_x == Xsig_aug[0, i]
      p_y == Xsig_aug[1, i]
      v == Xsig_aug[2, i]
      yaw == Xsig_aug[3, i]
      yawd == Xsig_aug[4, i]
      nu_a == Xsig_aug[5, i]
      nu_yawdd == Xsig_aug[6, i]
      turning == FGt(Fabs(yawd), SCALE \div 1000)
      yaw_end == FAdd(yaw, FMul(yawd, dt))
      px_p == IF turning
              THEN FAdd(p_x, FMul(FDiv(v, yawd), FSub(Sin(yaw_end), Sin(yaw))))
              ELSE FAdd(p_x, FMul(FMul(v, dt), Cos(yaw)))
      py_p == IF turning
              THEN FAdd(p_y, FMul(FDiv(v, yawd), FSub(Cos(yaw), Cos(yaw_end))))
              ELSE FAdd(p_y, FMul(FMul(v, dt), Sin(yaw)))
      half_a == FMul(FMul(FMul(SCALE \div 2, nu_a), dt), dt)
      half_yawdd == FMul(FMul(FMul(SCALE \div 2, nu_yawdd), dt), dt)
  IN  << FAdd(px_p, FMul(half_a, Cos(yaw)))
       , FAdd(py_p, FMul(half_a, Sin(yaw)))
       , FAdd(v, FMul(nu_a, dt))
       , FAdd(yaw_end, half_yawdd)
       , FAdd(yawd, FMul(nu_yawdd, dt)) >>

\* Xsig_pred_ as SigmaPointPrediction(delta_t) sets it from Xsig_aug_
SigmaPointPredictionOf(Xsig_aug, dt) ==
  LET pt == Eval([i \in 0 .. NSigma - 1 |-> PredictPoint(Xsig_aug, i, dt)])
  IN  Eval([r \in 0 .. n_x_ - 1, i \in 0 .. NSigma - 1 |-> pt[i][r + 1]])

\* the weighted mean of the columns of an r x NSigma matrix
WeightedMean(Sig, r) ==
  Eval([k \in 0 .. r - 1 |->
          SumTo([i \in 0 .. NSigma - 1 |-> FMul(weights_[i], Sig[k, i])], NSigma)])

\* x_ as PredictMeanAndCovariance() sets it
PredictedMean(Xsig_pred) == WeightedMean(Xsig_pred, n_x_)

\* column i of Xsig_pred_ minus the mean, heading difference normalized
StateDiff(Xsig_pred, x, i) ==
  NormalizeAt(VecSub(Col(Xsig_pred, i, n_x_), x, n_x_), 3, n_x_)

\* P_ as PredictMeanAndCovariance() sets it
PredictedCovariance(Xsig_pred, x) ==
  MatSumTo(Eval([i \in 0 .. NSigma - 1 |->
                   LET x_diff == StateDiff(Xsig_pred, x, i)
                   IN  Outer(weights_[i], x_diff, x_diff, n_x_, n_x_)]),
           NSigma, n_x_, n_x_)

\* sqrt(a * a + b * b), the squares kept at full precision: 0 only for a = b = 0
Hypot(a, b) == IF IsNaN(a) \/ IsNaN(b) THEN NaN ELSE ISqrt(a * a + b * b)

\* column i of Zsig_ as PredictRadarMeasurement computes it
MeasurementPoint(Xsig_pred, i) ==
  LET p_x == Xsig_pred[0, i]
      p_y == Xsig_pred[1, i]
      v == Xsig_pred[2, i]
      yaw == Xsig_pred[3, i]
      v1 == FMul(Cos(yaw), v)
      v2 == FMul(Sin(yaw), v)
      r == Hypot(p_x, p_y)
  IN  << r
       , Atan2(p_y, p_x)
       , FDiv(FAdd(FMul(p_x, v1), FMul(p_y, v2)), r) >>

\* Zsig_ as PredictRadarMeasurement sets it from Xsig_pred_
MeasurementSigmaPoints(Xsig_pred) ==
  LET pt == Eval([i \in 0 .. NSigma - 1 |-> MeasurementPoint(Xsig_pred, i)])
  IN  Eval([r \in 0 .. n_z_ - 1, i \in 0 .. NSigma - 1 |-> pt[i][r + 1]])

\* column i of Zsig_ minus the predicted measurement, bearing difference normalized
MeasDiff(Zsig, z_pred, i) ==
  NormalizeAt(VecSub(Col(Zsig, i, n_z_), z_pred, n_z_), 1, n_z_)

\* z_pred as PredictRadarMeasurement sets it: the weighted mean of Zsig_
PredictedMeasurement(Zsig) == WeightedMean(Zsig, n_z_)

\* S as PredictRadarMeasurement sets it: the measurement covariance plus RR_
InnovationCovariance(Zsig, z_pred) ==
  MatAdd(MatSumTo(Eval([i \in 0 .. NSigma - 1 |->
                          LET z_diff == MeasDiff(Zsig, z_pred, i)
                          IN  Outer(weights_[i], z_diff, z_diff, n_z_, n_z_)]),
                  NSigma, n_z_, n_z_),
         RR_, n_z_, n_z_)

\* Tc of UpdateRadar: the cross correlation of state and measurement
CrossCorrelation(Xsig_pred, x, Zsig, z_pred) ==
  MatSumTo(Eval([i \in 0 .. NSigma - 1 |->
                   Outer(weights_[i], StateDiff(Xsig_pred, x, i),
                         MeasDiff(Zsig, z_pred, i), n_x_, n_z_)]),
           NSigma, n_x_, n_z_)

\* K of UpdateRadar: the Kalman gain Tc * S.inverse()
RadarGain(Tc, S) ==
  After(Tc, After(S, MatMul(Tc, Inverse(S, n_z_), n_x_, n_z_, n_z_)))

\* the radar residual z - z_pred, bearing component normalized
RadarResidual(z, z_pred) == NormalizeAt(VecSub(z, z_pred, n_z_), 1, n_z_)

\* x_ as UpdateRadar sets it
RadarMean(x, K, z, z_pred) ==
  VecAdd(x, MatVec(K, RadarResidual(z, z_pred), n_x_, n_z_), n_x_)

\* P_ as UpdateRadar sets it
RadarCovariance(P, K, S) ==
  MatSub(P, MatMul(MatMul(K, S, n_x_, n_z_, n_z_),
                   Transpose(K, n_x_, n_z_), n_x_, n_z_, n_x_), n_x_, n_x_)

\* UpdateLidar(meas_package): the values it leaves in x_ and P_
UpdateLidarOf(x, P, z) ==
  LET z_pred == MatVec(H_, x, 2, n_x_)
      y == VecSub(z, z_pred, 2)
      Ht == Transpose(H_, 2, n_x_)
      S == MatAdd(MatMul(MatMul(H_, P, 2, n_x_, n_x_), Ht, 2, n_x_, 2), RL_, 2, 2)
      Si == Inverse(S, 2)
      PHt == MatMul(P, Ht, n_x_, n_x_, 2)
      K == MatMul(PHt, Si, n_x_, 2, 2)
      I == MatIdentity(n_x_, SCALE)
  IN  After(S, After(Si, After(K,
        [ x |-> VecAdd(x, MatVec(K, y, n_x_, 2), n_x_)
        , P |-> MatMul(MatSub(I, MatMul(K, H_, n_x_, 2, n_x_), n_x_, n_x_), P,
                       n_x_, n_x_, n_x_) ])))

\* ---------------------------------------------------------------- state

VARIABLES
  is_initialized_,  \* the filter is ready (Tracking)
  use_laser_,       \* laser updates are applied
  use_radar_,       \* radar updates are applied
  x_,               \* state mean: px, py, v, yaw, yawd
  P_,               \* state covariance, 5 x 5
  Xsig_pred_,       \* predicted sigma points, 5 x 15
  Xsig_aug_,        \* augmented sigma points, 7 x 15
  Zsig_,            \* sigma points in measurement space, 3 x 15
  time_,            \* timestamp of the last sample, microseconds
  meas_package,     \* the argument of the current (or last) call
  delta_t,          \* the argument of Prediction in the current (or last) call
  pc,               \* position of the thread of control
  trace,            \* the member functions the current (or last) call has run
  ncalls,           \* calls of ProcessMeasurement made so far
  ninit,            \* times the mean was set from a raw measurement
  angle,            \* SpecNormalize: an angle difference
  normalized        \* SpecNormalize: the loops have run on angle

vars ==
  << is_initialized_, use_laser_, use_radar_, x_, P_, Xsig_pred_, Xsig_aug_, Zsig_,
     time_, meas_package, delta_t, pc, trace, ncalls, ninit, angle, normalized >>

\* the filter's own fields
filter == << is_initialized_, x_, P_, Xsig_pred_, Xsig_aug_, Zsig_, time_ >>

flags == << use_laser_, use_radar_ >>

normalize_vars == << angle, normalized >>

\* a sensor tag that is neither LASER nor RADAR
OtherTag == 2

\* the vector holding the elements of a tuple
Vec(t) == [i \in 0 .. Len(t) - 1 |-> t[i + 1]]

\* timestamps of the samples, microseconds
Timestamps == {0, 50000}

\* raw measurements by sensor: (px, py), (rho, phi, rho_dot)
RawMeasurements(tag) ==
  IF tag = LASER THEN {Vec(<<0, 0>>), Vec(<<1000, 1000>>)}
  ELSE IF tag = RADAR THEN {Vec(<<1000, 0, 0>>)}
  ELSE {Vec(<<0, 0>>)}

\* the samples a caller may pass
Packages ==
  UNION { { [sensor_type_ |-> tag, raw_measurements_ |-> raw, timestamp_ |-> t] :
              raw \in RawMeasurements(tag), t \in Timestamps } :
          tag \in {LASER, RADAR, OtherTag} }

\* contents of memory the constructor leaves unset: x_ = VectorXd(5), time_
Indeterminate == {0, 7777}

\* UKF::UKF().  The constructor sets use_laser_ and use_radar_ to true; the
\* comments on them describe the filter with either one false, and both
\* settings of each flag are modelled.  x_ and time_ are left unset.
InitFilter ==
  /\ is_initialized_ = FALSE
  /\ use_laser_ \in BOOLEAN
  /\ use_radar_ \in BOOLEAN
  /\ x_ \in {VecFill(n_x_, g) : g \in Indeterminate}
  /\ P_ = MatIdentity(n_x_, FMul(SCALE, SCALE \div 2))
  /\ Xsig_pred_ = MatFill(n_x_, NSigma, 0)
  /\ Xsig_aug_ = MatFill(n_aug_, NSigma, 0)
  /\ Zsig_ = MatFill(n_z_, NSigma, 0)
  /\ time_ \in Indeterminate
  /\ meas_package = [sensor_type_ |-> LASER, raw_measurements_ |-> Vec(<<0, 0>>),
                     timestamp_ |-> 0]
  /\ delta_t = 0
  /\ pc = "idle"
  /\ trace = <<>>
  /\ ncalls = 0
  /\ ninit = 0

Init ==
  /\ InitFilter
  /\ angle = 0
  /\ normalized = <<>>

\* ------------------------------------------------------------- the steps

\* Initializes with a case label for RADAR as well
InitializesOnEitherSensor(m) == m.sensor_type_ \in {LASER, RADAR}

\* the first switch: the case label that initializes the filter
Initializes(m) == m.sensor_type_ = LASER

\* InitializedFlag with the assignment left out
InitializedFlagNotSet == FALSE

\* is_initialized_ = true, the value the LASER case leaves in the flag
InitializedFlag == TRUE

\* UninitializedReturn without the return: control leaves the if block
UninitializedFallsThrough == "AugmentedSigmaPoints"

\* the first switch's `default: return;`, which the LASER case falls into
UninitializedReturn == "idle"

\* InitialMean without x_.tail(3).fill(0.0)
InitialMeanKeepsTail(m) ==
  [i \in 0 .. n_x_ - 1 |-> IF i < 2 THEN m.raw_measurements_[i] ELSE x_[i]]

\* x_.head(2) = raw_measurements_; x_.tail(3).fill(0.0)
InitialMean(m) == [i \in 0 .. n_x_ - 1 |-> IF i < 2 THEN m.raw_measurements_[i] ELSE 0]

\* ElapsedSeconds with a guard that replaces a negative difference by 0
ElapsedSecondsClamped(m, t) ==
  IF m.timestamp_ < t THEN 0 ELSE Round((m.timestamp_ - t) * SCALE, 1000000)

\* (timestamp_ - time_) / 1.0e6, in seconds
ElapsedSeconds(m, t) == Round((m.timestamp_ - t) * SCALE, 1000000)

\* SwitchTarget with the RADAR case calling the LASER case's engine
SwitchTargetLidarOnly(tag) ==
  IF tag \in {LASER, RADAR} THEN (IF use_laser_ THEN "UpdateLidar" ELSE "idle")
  ELSE "exit"

\* SwitchTarget without the tests of use_laser_ and use_radar_
SwitchTargetUngated(tag) ==
  IF tag = LASER THEN "UpdateLidar"
  ELSE IF tag = RADAR THEN "UpdateRadar"
  ELSE "exit"

\* where the second switch goes for a sensor tag
SwitchTarget(tag) ==
  IF tag = LASER THEN (IF use_laser_ THEN "UpdateLidar" ELSE "idle")
  ELSE IF tag = RADAR THEN (IF use_radar_ THEN "UpdateRadar" ELSE "idle")
  ELSE "exit"

\* ProcessMeasurement(meas_package), to the call of Prediction or to the
\* return of the uninitialized branch
ProcessMeasurement(m) ==
  /\ pc = "idle"
  /\ ncalls < MaxCalls
  /\ meas_package' = m
  /\ ncalls' = ncalls + 1
  /\ trace' = <<"ProcessMeasurement">>
  /\ IF ~is_initialized_
     THEN /\ IF Initializes(m)
             THEN /\ x_' = InitialMean(m)
                  /\ time_' = m.timestamp_
                  /\ is_initialized_' = InitializedFlag
                  /\ ninit' = ninit + 1
             ELSE UNCHANGED << x_, time_, is_initialized_, ninit >>
          /\ pc' = UninitializedReturn
          /\ UNCHANGED delta_t
     ELSE /\ delta_t' = ElapsedSeconds(m, time_)
          /\ time_' = m.timestamp_
          /\ pc' = "AugmentedSigmaPoints"
          /\ UNCHANGED << x_, is_initialized_, ninit >>
  /\ UNCHANGED << P_, Xsig_pred_, Xsig_aug_, Zsig_, flags, normalize_vars >>

\* Prediction, first step
AugmentedSigmaPoints ==
  /\ pc = "AugmentedSigmaPoints"
  /\ Xsig_aug_' = AugmentedSigmaPointsOf(x_, P_)
  /\ pc' = "SigmaPointPrediction"
  /\ trace' = Append(trace, "AugmentedSigmaPoints")
  /\ UNCHANGED << is_initialized_, x_, P_, Xsig_pred_, Zsig_, time_, flags,
                  meas_package, delta_t, ncalls, ninit, normalize_vars >>

\* Prediction, second step
SigmaPointPrediction ==
  /\ pc = "SigmaPointPrediction"
  /\ Xsig_pred_' = SigmaPointPredictionOf(Xsig_aug_, delta_t)
  /\ pc' = "PredictMeanAndCovariance"
  /\ trace' = Append(trace, "SigmaPointPrediction")
  /\ UNCHANGED << is_initialized_, x_, P_, Xsig_aug_, Zsig_, time_, flags,
                  meas_package, delta_t, ncalls, ninit, normalize_vars >>

\* Prediction, third step; Prediction returns into ProcessMeasurement
PredictMeanAndCovariance ==
  /\ pc = "PredictMeanAndCovariance"
  /\ x_' = PredictedMean(Xsig_pred_)
  /\ P_' = PredictedCovariance(Xsig_pred_, x_')
  /\ pc' = "switch"
  /\ trace' = Append(trace, "PredictMeanAndCovariance")
  /\ UNCHANGED << is_initialized_, Xsig_pred_, Xsig_aug_, Zsig_, time_, flags,
                  meas_package, delta_t, ncalls, ninit, normalize_vars >>

\* ProcessMeasurement, the switch after Prediction
SensorSwitch ==
  /\ pc = "switch"
  /\ pc' = SwitchTarget(meas_package.sensor_type_)
  /\ UNCHANGED << filter, flags, meas_package, delta_t, trace, ncalls, ninit,
                  normalize_vars >>

UpdateLidar ==
  /\ pc = "UpdateLidar"
  /\ LET u == UpdateLidarOf(x_, P_, meas_package.raw_measurements_)
     IN  /\ x_' = u.x
         /\ P_' = u.P
  /\ pc' = "idle"
  /\ trace' = Append(trace, "UpdateLidar")
  /\ UNCHANGED << is_initialized_, Xsig_pred_, Xsig_aug_, Zsig_, time_, flags,
                  meas_package, delta_t, ncalls, ninit, normalize_vars >>

\* UpdateRadar, with the call of PredictRadarMeasurement that opens it; z_pred,
\* S and K are its locals
UpdateRadar ==
  /\ pc = "UpdateRadar"
  /\ Zsig_' = MeasurementSigmaPoints(Xsig_pred_)
  /\ \E z_pred \in {PredictedMeasurement(Zsig_')} :
       \E S \in {InnovationCovariance(Zsig_', z_pred)} :
         \E K \in {RadarGain(CrossCorrelation(Xsig_pred_, x_, Zsig_', z_pred), S)} :
           /\ x_' = RadarMean(x_, K, meas_package.raw_measurements_, z_pred)
           /\ P_' = RadarCovariance(P_, K, S)
  /\ pc' = "idle"
  /\ trace' = Append(trace, "UpdateRadar")
  /\ UNCHANGED << is_initialized_, Xsig_pred_, Xsig_aug_, time_, flags,
                  meas_package, delta_t, ncalls, ninit, normalize_vars >>

Next ==
  \/ \E m \in Packages : ProcessMeasurement(m)
  \/ AugmentedSigmaPoints
  \/ SigmaPointPrediction
  \/ PredictMeanAndCovariance
  \/ SensorSwitch
  \/ UpdateLidar
  \/ UpdateRadar

Spec == Init /\ [][Next]_vars

\* ------------------------------------------- the normalization loops alone

\* a freshly constructed filter and an angle difference to normalize
InitNormalize ==
  /\ InitFilter
  /\ use_laser_
  /\ use_radar_
  /\ x_ = VecFill(n_x_, 0)
  /\ time_ = 0
  /\ angle \in (-MaxAngle .. MaxAngle) \cup {NaN}
  /\ normalized = <<>>

\* the two while loops run on angle: alone, and where the filter runs them, on
\* a state difference, a measurement difference and the radar residual
Normalize ==
  /\ normalized = <<>>
  /\ normalized' =
       << NormalizeAngle(angle)
        , StateDiff(MatFill(n_x_, NSigma, angle), VecFill(n_x_, 0), 0)[3]
        , MeasDiff(MatFill(n_z_, NSigma, angle), VecFill(n_z_, 0), 0)[1]
        , RadarResidual(VecFill(n_z_, angle), VecFill(n_z_, 0))[1] >>
  /\ UNCHANGED << filter, flags, meas_package, delta_t, pc, trace, ncalls, ninit, angle >>

NextNormalize == Normalize

SpecNormalize == InitNormalize /\ [][NextNormalize]_vars

\* ------------------------------------------------------------ the claims

\* the step is a call of ProcessMeasurement; meas_package' is its argument
Called == ncalls' = ncalls + 1

\* the sensor of the current sample is one whose update is switched on
SensorEnabled ==
  \/ meas_package.sensor_type_ = LASER /\ use_laser_
  \/ meas_package.sensor_type_ = RADAR /\ use_radar_

\* the sensor of the current sample is one whose update is switched off
SensorDisabled ==
  \/ meas_package.sensor_type_ = LASER /\ ~use_laser_
  \/ meas_package.sensor_type_ = RADAR /\ ~use_radar_

\* the member functions of a call that runs Prediction and no update
PredictionOnly ==
  << "ProcessMeasurement", "AugmentedSigmaPoints", "SigmaPointPrediction",
     "PredictMeanAndCovariance" >>

\* the member functions of a call that runs Prediction and the update of its sensor
PredictionAndUpdate ==
  Append(PredictionOnly,
         IF meas_package.sensor_type_ = LASER THEN "UpdateLidar" ELSE "UpdateRadar")

\* the constructor's values of P_ and of the three sigma point buffers
ConstructionPrior ==
  /\ P_ = [i \in 0 .. n_x_ - 1, j \in 0 .. n_x_ - 1 |-> IF i = j THEN SCALE \div 2 ELSE 0]
  /\ Xsig_pred_ = MatFill(n_x_, NSigma, 0)
  /\ Xsig_aug_ = MatFill(n_aug_, NSigma, 0)
  /\ Zsig_ = MatFill(n_z_, NSigma, 0)

C1_Step ==
  (Called /\ ~is_initialized_ /\ meas_package'.sensor_type_ = LASER)
    => /\ x_'[0] = meas_package'.raw_measurements_[0]
       /\ x_'[1] = meas_package'.raw_measurements_[1]
       /\ \A k \in 2 .. n_x_ - 1 : x_'[k] = 0
       /\ time_' = meas_package'.timestamp_
       /\ is_initialized_'
       /\ pc' = "idle"

\* C1: a call made while the filter is not initialized, with a LASER sample,
\* returns with px and py equal to the two raw values, v, yaw and yawd equal to 0,
\* time_ equal to the sample's timestamp and is_initialized_ true.
C1_LaserInitializes == [][C1_Step]_vars

\* a first call with the LASER sample (1, 1) at 50000 us has returned
C1_Witness ==
  /\ ncalls = 1
  /\ pc = "idle"
  /\ is_initialized_
  /\ meas_package.sensor_type_ = LASER
  /\ x_ = Vec(<< 1000, 1000, 0, 0, 0 >>)
  /\ time_ = 50000

C2_Step ==
  (Called /\ ~is_initialized_ /\ meas_package'.sensor_type_ = RADAR)
    => /\ pc' = "idle"
       /\ ~is_initialized_'
       /\ UNCHANGED << x_, P_, time_, Xsig_pred_, Xsig_aug_, Zsig_ >>

C3_Step ==
  (Called /\ meas_package'.sensor_type_ \notin {LASER, RADAR})
    => /\ pc' = "exit"
       /\ UNCHANGED << x_, P_, time_ >>

\* C3: every call whose sensor tag is neither LASER nor RADAR ends in exit(1),
\* never in a return, initialized or not, and exits before it changes x_, P_ or
\* time_.
C3_UnknownTagExitsAtOnce == [][C3_Step]_vars

C4_Order ==
  ((pc # "idle" \/ Len(trace) > 1) /\ SensorEnabled)
    => /\ time_ = meas_package.timestamp_
       /\ Len(trace) <= Len(PredictionAndUpdate)
       /\ trace = SubSeq(PredictionAndUpdate, 1, Len(trace))
       /\ pc \in CASE Len(trace) = 1 -> {"AugmentedSigmaPoints"}
                   [] Len(trace) = 2 -> {"SigmaPointPrediction"}
                   [] Len(trace) = 3 -> {"PredictMeanAndCovariance"}
                   [] Len(trace) = 4 -> {"switch", PredictionAndUpdate[5]}
                   [] OTHER -> {"idle"}

C4_Step ==
  /\ (Called /\ is_initialized_ /\ SensorEnabled')
       => (time_' = meas_package'.timestamp_ /\ pc' = "AugmentedSigmaPoints")
  /\ C4_Order'

\* C4: a call made while the filter is initialized, with a LASER or RADAR sample
\* whose sensor is switched on, sets time_ to the sample's timestamp, then runs
\* AugmentedSigmaPoints, SigmaPointPrediction and PredictMeanAndCovariance in that
\* order, then the one update of the sample's sensor, each exactly once, and
\* nothing else.
C4_TimestampPredictionUpdate == [][C4_Step]_vars

\* a RADAR call on an initialized filter has returned after Prediction and UpdateRadar
C4_Witness ==
  /\ pc = "idle"
  /\ meas_package.sensor_type_ = RADAR
  /\ use_radar_
  /\ trace = << "ProcessMeasurement", "AugmentedSigmaPoints", "SigmaPointPrediction",
                "PredictMeanAndCovariance", "UpdateRadar" >>

C5_Step ==
  /\ (Called /\ is_initialized_ /\ SensorDisabled')
       => (time_' = meas_package'.timestamp_ /\ pc' = "AugmentedSigmaPoints")
  /\ (pc = "switch" /\ SensorDisabled)
       => /\ pc' = "idle"
          /\ trace' = PredictionOnly
          /\ time_' = meas_package'.timestamp_
          /\ UNCHANGED << x_, P_ >>
          /\ x_' = PredictedMean(Xsig_pred_')
          /\ P_' = PredictedCovariance(Xsig_pred_', x_')
  /\ (Called /\ ~is_initialized_ /\ meas_package'.sensor_type_ = LASER)
       => is_initialized_'

\* C5: with use_laser_ (use_radar_) false, a call on an initialized filter with a
\* LASER (RADAR) sample sets time_ to the sample's timestamp, runs Prediction and
\* returns without an update, x_ and P_ being the values PredictMeanAndCovariance
\* computed; a LASER sample initializes the filter also when use_laser_ is false.
C5_DisabledSensorPredictsOnly == [][C5_Step]_vars

\* use_laser_ is false: a LASER sample has initialized the filter, and a later LASER
\* call has returned after Prediction alone
C5_Witness ==
  /\ ~use_laser_
  /\ is_initialized_
  /\ pc = "idle"
  /\ meas_package.sensor_type_ = LASER
  /\ trace = PredictionOnly

\* the part of C6 that holds as stated
C6_OneWay ==
  /\ is_initialized_ => is_initialized_'
  /\ ninit' <= 1
  /\ is_initialized_' <=> ninit' = 1
  /\ (Called /\ ~is_initialized_ /\ is_initialized_')
       => meas_package'.sensor_type_ = LASER
  /\ (Called /\ is_initialized_ /\ meas_package'.sensor_type_ = LASER)
       => (ninit' = ninit /\ x_' = x_ /\ pc' = "AugmentedSigmaPoints")

C6_StepAsStated ==
  /\ C6_OneWay
  /\ (pc = "switch" /\ meas_package.sensor_type_ = LASER) => pc' = "UpdateLidar"

C6_Step ==
  /\ C6_OneWay
  /\ (pc = "switch" /\ meas_package.sensor_type_ = LASER)
       => pc' = IF use_laser_ THEN "UpdateLidar" ELSE "idle"

\* C6 as stated: is_initialized_ never goes back to false, x_ is assigned from a
\* raw measurement exactly once, by the first LASER sample, and every later LASER
\* sample goes through Prediction and UpdateLidar.
C6_LaterLaserAlwaysUpdates == [][C6_StepAsStated]_vars

\* C6: is_initialized_ never goes back to false, x_ is assigned from a raw
\* measurement exactly once, by the first LASER sample, and every later LASER
\* sample goes through Prediction, and through UpdateLidar when use_laser_ is true.
C6_InitializedOnce == [][C6_Step]_vars

\* a LASER call on the initialized filter has returned after Prediction and UpdateLidar
C6_Witness ==
  /\ ncalls >= 2
  /\ ninit = 1
  /\ is_initialized_
  /\ pc = "idle"
  /\ meas_package.sensor_type_ = LASER
  /\ Len(trace) = 5
  /\ trace[5] = "UpdateLidar"

\* C7: until the filter is initialized, and still when the call that initializes
\* it has returned, no call has run Prediction or an update: every such call has
\* returned from ProcessMeasurement itself, P_ is the constructor's 0.5 * I and
\* the sigma point buffers are the constructor's zeros.
C7_NothingRunsBeforeReady ==
  (~is_initialized_ \/ (pc = "idle" /\ Len(trace) <= 1))
    => /\ pc = "idle"
       /\ Len(trace) <= 1
       /\ ConstructionPrior

\* two samples were dropped and the third has initialized the filter
C7_Witness ==
  /\ ncalls = 3
  /\ ninit = 1
  /\ is_initialized_
  /\ pc = "idle"
  /\ trace = << "ProcessMeasurement" >>

C9_Scenario ==
  /\ ncalls = 2
  /\ pc = "idle"
  /\ trace = << "ProcessMeasurement", "AugmentedSigmaPoints", "SigmaPointPrediction",
                "PredictMeanAndCovariance", "UpdateRadar" >>
  /\ meas_package = [sensor_type_ |-> RADAR, raw_measurements_ |-> Vec(<< 1000, 0, 0 >>),
                     timestamp_ |-> 50000]
  /\ delta_t = 50
  /\ \A k \in 0 .. n_x_ - 1 : Xsig_aug_[k, 0] = 0

\* C9: in that scenario the range of each of the 15 predicted sigma points is
\* not zero, so that the range rates are defined, and the update leaves a defined
\* mean with the position within std_radr_ of (1, 0).
C9_RadarUpdateDefined ==
  C9_Scenario
    => /\ \A i \in 0 .. NSigma - 1 : Zsig_[0, i] # 0 /\ ~IsNaN(Zsig_[2, i])
       /\ \A k \in 0 .. n_x_ - 1 : ~IsNaN(x_[k])
       /\ Abs(x_[0] - 1000) <= std_radr_
       /\ Abs(x_[1]) <= std_radr_

C10_Step ==
  /\ is_initialized_' => time_' = meas_package'.timestamp_
  /\ (Called /\ is_initialized_)
       => /\ delta_t' * (1000000 \div SCALE) = meas_package'.timestamp_ - time_
          /\ pc' = "AugmentedSigmaPoints"
  /\ (Called /\ ~is_initialized_ /\ ~is_initialized_')
       => (time_' = time_ /\ delta_t' = delta_t)
  /\ ~Called => (time_' = time_ /\ delta_t' = delta_t)
  /\ pc = "SigmaPointPrediction"
       => Xsig_pred_' = SigmaPointPredictionOf(Xsig_aug_, delta_t)

\* C10: once the filter is initialized, time_ is the timestamp of the last sample
\* passed, the initializing one included; each call on the initialized filter
\* hands Prediction (timestamp_ - time_) / 1e6 with the time_ of before the call,
\* negative when the sample is older; samples dropped before the initialization
\* leave time_ alone.
C10_ElapsedTime == [][C10_Step]_vars

\* Prediction is running with a negative elapsed time
C10_Witness ==
  /\ pc = "SigmaPointPrediction"
  /\ delta_t < 0
  /\ time_ = 0

====
